---- MODULE Spec2Model ----
(***************************************************************************)
(* Model of the audio/video alignment engine of the Electron main process  *)
(* (src/unnamed/part_000): the 'alignment:run' IPC handler with the        *)
(* helpers it drives (checkFfmpeg, extractAudioToWav, computeEnergyProfile,*)
(* normalizeSeries, findBestOffset, muxAligned), and of the subtitle slot  *)
(* fitter ensureClipFitsSubtitleSlot (src/unnamed/part_001) with the       *)
(* callback its two callers give it; of the clip timeline of                *)
(* 'system:mixAudio' and of buildAtempoFilter (both part_000); and of the  *)
(* service list of the renderer's TTSContext.                              *)
(*                                                                         *)
(* Eight specifications share the module:                                  *)
(*   Spec        one 'alignment:run' call, step by step;                   *)
(*   SpecLog     the same call with or without runId and window, and the   *)
(*               window closing while it runs;                             *)
(*   SpecOffset  findBestOffset as a pure function of two energy series;   *)
(*   SpecFit     one ensureClipFitsSubtitleSlot call and its caller;       *)
(*   SpecPath    'alignment:run' over the forms of outputPath and prepend; *)
(*   SpecMix     the clip loop of one 'system:mixAudio' call;              *)
(*   SpecTempo   one buildAtempoFilter call, loop iteration by iteration;  *)
(*   SpecTts     addService / deleteService / setDefaultService calls.     *)
(***************************************************************************)
EXTENDS Integers, Sequences, FiniteSets, TLC

\* ---------------------------------------------------------------- bounds

\* Longest videoPaths / audioPaths list of the modelled call.
MaxPaths == 2

\* Longest energy series given to findBestOffset under SpecOffset.
MaxLen == 5

\* Longest clips array given to 'system:mixAudio' under SpecMix.
MaxClips == 3

\* Highest speed, in hundredths, given to buildAtempoFilter under SpecTempo.
MaxTempoSpeed == 1000

\* Most services ever added under SpecTts.
MaxServices == 4

\* ------------------------------------------------------ program constants

\* const ALIGN_MAX_OFFSET_MS = 15 * 60 * 1000
ALIGN_MAX_OFFSET_MS == 900000

\* computeEnergyProfile: const hopMs = 100
ProfileHopMs == 100

\* 'alignment:run': energies.length < 5 is "too short"
MinProfileValues == 5

\* ------------------------------------------------------------- variables

VARIABLES
    \* --- one 'alignment:run' call
    options,        \* the AlignmentRunOptions of the call
    pc,             \* position of the handler
    logs,           \* const logs: string[]
    videos,         \* [...options.videoPaths].sort()
    audios,         \* [...options.audioPaths].sort()
    pairs,          \* Math.min(videos.length, audios.length)
    baseDir,        \* directory the outputs go to
    i,              \* loop index (0-based, as in the code)
    outputPath,     \* deriveOutputPath() of the current pair
    videoExtract,   \* result of extractAudioToWav(video)
    audioExtract,   \* result of extractAudioToWav(audio)
    videoProfile,   \* computeEnergyProfile(videoExtract.wavPath).energies
    audioProfile,   \* computeEnergyProfile(audioExtract.wavPath).energies
    best,           \* findBestOffset(...) of the current pair
    lastMux,        \* the filter muxAligned built for the current pair
    lastOutput,     \* let lastOutput
    reportData,     \* const reportData: AlignmentReportEntry[]
    result,         \* the value the handler returned
    tempDirs,       \* temporary directories that exist on disk
    createdDirs,    \* every temporary directory the run created (history)
    ffmpegCalls,    \* number of spawn('ffmpeg', ...) made by the run (history)
    trace,          \* the steps the run started, in order (history)
    inFlight,       \* ffmpeg processes spawned by the run and not yet closed
    pendingDir,     \* const tempDir of the extractAudioToWav call in progress
    mainWindow,     \* let mainWindow: the window exists (is not null)
    pushed,         \* the 'alignment:log' messages sent to the window (history)
    \* --- findBestOffset as a pure function
    fpc,            \* position of the harness
    fa,             \* first series
    fb,             \* second series
    fhop,           \* hopMs
    fab,            \* findBestOffset(fa, fb, fhop)
    fba,            \* findBestOffset(fb, fa, fhop)
    \* --- one ensureClipFitsSubtitleSlot call and the caller around it
    spc,            \* position of the call
    input,          \* the options of the call
    finalPath,      \* let finalPath
    queries,        \* the getAudioDuration calls made, with their answers (history)
    calls,          \* how often each injected function was called (history)
    neededSpeed,    \* const neededSpeed, once computed
    fasterResult,   \* the answer of the re-synthesis
    returned,       \* the path the call returned
    callerOutcome,  \* what the caller did with the call's completion
    \* --- one 'system:mixAudio' call
    mpc,            \* position of the handler
    clips,          \* the clips array (sorted in place by the handler)
    mi,             \* the loop index i
    currentTime,    \* let currentTime, in ms
    concat,         \* the files of concatFileContent, in order, with their lengths
    mixResult,      \* what the handler answered
    \* --- one buildAtempoFilter call
    tpc,            \* position of the call
    tempoSpeed,     \* the parameter speed, in hundredths
    currentSpeed,   \* let currentSpeed, an exact fraction
    filters,        \* const filters
    tempoResult,    \* the factors of the string returned
    \* --- the TTSContext provider
    config,         \* the config state: services and defaultServiceId
    created,        \* how many ids crypto.randomUUID() has given out
    lastOp          \* the last handler that completed (history)

runVars ==
    << options, pc, logs, videos, audios, pairs, baseDir, i, outputPath,
       videoExtract, audioExtract, videoProfile, audioProfile, best, lastMux,
       lastOutput, reportData, result, tempDirs, createdDirs, ffmpegCalls, trace,
       inFlight, pendingDir, mainWindow, pushed >>

offsetVars == << fpc, fa, fb, fhop, fab, fba >>

fitVars ==
    << spc, input, finalPath, queries, calls, neededSpeed, fasterResult, returned,
       callerOutcome >>

mixVars == << mpc, clips, mi, currentTime, concat, mixResult >>

tempoVars == << tpc, tempoSpeed, currentSpeed, filters, tempoResult >>

ttsVars == << config, created, lastOp >>

toolVars == << mixVars, tempoVars, ttsVars >>

vars == << runVars, offsetVars, fitVars, toolVars >>

\* ---------------------------------------------------------------- helpers

Max(x, y) == IF x >= y THEN x ELSE y

Min(x, y) == IF x <= y THEN x ELSE y

Abs(x) == IF x >= 0 THEN x ELSE -x

\* Sequences over S of length lo..hi.
SeqsOf(S, lo, hi) == UNION { [1..n -> S] : n \in lo..hi }

\* Sequences over S without repetition, of length 0..hi.
DistinctSeqs(S, hi) ==
    { s \in SeqsOf(S, 0, hi) : \A x, y \in DOMAIN s : x # y => s[x] # s[y] }

\* ------------------------------------------------------- offset search

EnergyLevels == {0, 1}

RECURSIVE Sum(_)
Sum(s) == IF Len(s) = 0 THEN 0 ELSE Head(s) + Sum(Tail(s))

(***************************************************************************)
(* normalizeSeries(values).  The code returns the z-scores                 *)
(*     data[k] = (values[k] - mean) / std,  std = max(sqrt(var), 1e-6).    *)
(* TLA+ has integers only, so the model keeps the exact numerators         *)
(*     data[k] = n * values[k] - sum(values)   ( = n * std * z-score ),    *)
(* with n = values.length || 1, and sumSq = sum of data[k]^2 ( = n^3 var). *)
(* n * std is one positive factor for the whole series (the 1e-6 floor     *)
(* keeps it positive for a constant series, whose numerators are all 0),   *)
(* so every comparison of two scores of one findBestOffset call is the     *)
(* comparison of the exact rationals kept here.  The rounding of the       *)
(* Float32Array and of the double sums is not modelled: two scores that    *)
(* are equal as rationals are equal here.                                  *)
(***************************************************************************)
normalizeSeries(values) ==
    LET n == IF Len(values) = 0 THEN 1 ELSE Len(values)
        total == Sum(values)
        data == [k \in 1..Len(values) |-> n * values[k] - total]
    IN  [ data |-> data,
          n |-> n,
          sumSq |-> Sum([k \in 1..Len(values) |-> data[k] * data[k]]) ]

\* -Infinity
NegInfinity == [inf |-> TRUE, num |-> 0, den |-> 1]

\* sum / count as an exact rational (count > 0)
Ratio(num, den) == [inf |-> FALSE, num |-> num, den |-> den]

\* score >= best.score (the comparison findBestOffset does not make)
ScoreGreaterOrEqual(s, t) ==
    IF t.inf THEN TRUE
    ELSE IF s.inf THEN FALSE
    ELSE s.num * t.den >= t.num * s.den

\* score > best.score, with IEEE -Infinity: nothing is below it, it is above nothing
ScoreGreater(s, t) ==
    IF s.inf THEN FALSE
    ELSE IF t.inf THEN TRUE
    ELSE s.num * t.den > t.num * s.den

\* Math.max(0, step) in the place of aStart
AStartShifted(step) == Max(0, step)

\* const aStart = Math.max(0, -step)   (0-based)
AStart(step) == Max(0, -step)

\* const bStart = Math.max(0, step)    (0-based)
BStart(step) == Max(0, step)

\* const len = Math.min(aNorm.length - aStart, bNorm.length - bStart)
OverlapLen(aNorm, bNorm, step) ==
    Min(Len(aNorm.data) - AStart(step), Len(bNorm.data) - BStart(step))

\* the inner loop and the score of one candidate step
StepScore(aNorm, bNorm, step) ==
    LET len == OverlapLen(aNorm, bNorm, step)
        sum == IF len > 0
               THEN Sum([k \in 1..len |->
                          aNorm.data[AStart(step) + k] * bNorm.data[BStart(step) + k]])
               ELSE 0
    IN  IF len > 0 THEN Ratio(sum, len) ELSE NegInfinity

\* const maxSteps = Math.floor(ALIGN_MAX_OFFSET_MS / hopMs)
MaxSteps(hopMs) == ALIGN_MAX_OFFSET_MS \div hopMs

(***************************************************************************)
(* The loop  for (step = -maxSteps; step <= maxSteps; step++).  A step     *)
(* below -a.length or above b.length has len < 0, scores -Infinity and     *)
(* leaves best as it is, so the model runs the loop over                   *)
(* FirstStep..LastStep, which still holds one step of len < 0 and one of   *)
(* len = 0 at each end of the window.                                      *)
(***************************************************************************)
\* the loop started at step 0
FirstStepFromZero(a, b, hopMs) == 0

FirstStep(a, b, hopMs) == Max(-MaxSteps(hopMs), -(Len(a) + 1))

\* the loop with step < maxSteps in the place of step <= maxSteps
LastStepExclusive(a, b, hopMs) == Min(MaxSteps(hopMs) - 1, Len(b) + 1)

LastStep(a, b, hopMs) == Min(MaxSteps(hopMs), Len(b) + 1)

RECURSIVE SearchFrom(_, _, _, _, _, _)
SearchFrom(aNorm, bNorm, hopMs, step, last, bestSoFar) ==
    IF step > last THEN bestSoFar
    ELSE LET score == StepScore(aNorm, bNorm, step)
         IN  SearchFrom(aNorm, bNorm, hopMs, step + 1, last,
                        IF ScoreGreater(score, bestSoFar.score)
                        THEN [offsetMs |-> step * hopMs, score |-> score]
                        ELSE bestSoFar)

findBestOffset(a, b, hopMs) ==
    SearchFrom(normalizeSeries(a), normalizeSeries(b), hopMs,
               FirstStep(a, b, hopMs), LastStep(a, b, hopMs),
               [offsetMs |-> 0, score |-> NegInfinity])


\* ------------------------------------------------------- 'alignment:run'

\* File names of the caller's lists; their order is the order of Array.sort().
\* A list of the modelled call names no file twice.
Names == 1..MaxPaths

\* What a decoded WAV can hold, as the energy series computeEnergyProfile reads
\* from it: a clip too short to analyse, silence, and a burst early or late.
MediaProfiles ==
    { <<0, 0, 1, 0>>,
      <<0, 0, 0, 0, 0>>,
      <<0, 1, 0, 0, 0, 0>>,
      <<0, 0, 0, 0, 1, 0>> }

NoDir == [prefix |-> "", id |-> 0]

UserDir == [prefix |-> "user", id |-> 0]

NoPath == [dir |-> NoDir, prefix |-> "", stem |-> 0, index |-> 0]

\* the outputPath a caller supplies: <UserDir>/<stem 0><ext>
UserOutput == [dir |-> UserDir, prefix |-> "", stem |-> 0, index |-> 0]

NoExtract == [error |-> "", wavPath |-> NoDir, energies |-> << >>]

NoBest == [offsetMs |-> 0, score |-> NegInfinity]

NoFilter == [kind |-> "", ms |-> 0]

ErrFfmpeg == "FFmpeg is required for alignment."

ErrInputs == "Video and audio inputs are required."

ErrExtract == "Failed to extract audio: <stderr>"

ErrProfile == "Could not analyze audio energy (files too short or empty)."

ErrMux == "<stderr> || FFmpeg exited with code <code>"

\* the copy of the list without the sort
unsortedPaths(s) == s

\* [...paths].sort(): insertion into an ascending list
RECURSIVE sortPaths(_)
sortPaths(s) ==
    IF Len(s) = 0 THEN << >>
    ELSE LET rest == sortPaths(Tail(s))
             lower == SelectSeq(rest, LAMBDA x : x <= Head(s))
             upper == SelectSeq(rest, LAMBDA x : x > Head(s))
         IN  lower \o << Head(s) >> \o upper

\* fs.mkdtempSync(prefix + ...): a directory no earlier call of the run returned
NewDir(prefix) == [prefix |-> prefix, id |-> Cardinality(createdDirs) + 1]

Step(name, pair, ok) == [step |-> name, pair |-> pair, ok |-> ok]

\* the message texts of sendLog
AligningLine(pair, video, audio) ==
    [kind |-> "Aligning", pair |-> pair, video |-> video, audio |-> audio, offsetMs |-> 0]

BestOffsetLine(pair, offsetMs) ==
    [kind |-> "Best offset", pair |-> pair, video |-> 0, audio |-> 0, offsetMs |-> offsetMs]

\* return { error } with the logs left out
ErrorResultNoLogs(message, logLines) == [error |-> message, logs |-> << >>]

\* return { error, logs }
ErrorResult(message, logLines) == [error |-> message, logs |-> logLines]

\* return { success: true, logs, outputPath: lastOutput, reportData, outputs }
SuccessResult ==
    [success |-> TRUE, logs |-> logs, outputPath |-> lastOutput,
     reportData |-> reportData, outputs |-> reportData]

\* checkFfmpeg(): spawn('ffmpeg', ['-version']); one process, whatever it answers
checkFfmpegSpawns == 1

\* extractAudioToWav(inputPath) when its own checkFfmpeg answers false
ExtractNoFfmpeg == [error |-> ErrFfmpeg, wavPath |-> NoDir, energies |-> << >>]

(***************************************************************************)
(* extractAudioToWav(inputPath): the value its promise resolves with when  *)
(* the decoding ffmpeg closes, under an outcome of the environment:        *)
(* "decodeFailed" (exit code not 0, or no file written) or "ok".  tempDir  *)
(* is the directory the call made for its audio.wav.                       *)
(***************************************************************************)
extractAudioToWav(outcome, energies, tempDir) ==
    IF outcome = "ok"
    THEN [error |-> "", wavPath |-> tempDir, energies |-> energies]
    ELSE [error |-> ErrExtract, wavPath |-> NoDir, energies |-> << >>]

ExtractOutcomes ==
    { <<"decodeFailed", << >> >> } \cup { <<"ok", e>> : e \in MediaProfiles }

\* the awaited promise resolves in the 'close' handler of the process: the
\* process is no longer running when the handler goes on
AfterCloseStillRunning(n) == n

AfterClose(n) == n - 1

\* sendLog with the webContents.send left out
sendLogUnsent(message) == pushed

\* sendLog: if (mainWindow && options.runId) mainWindow.webContents.send(...)
sendLog(message) ==
    IF mainWindow /\ options.runId THEN Append(pushed, message) ELSE pushed

\* computeEnergyProfile(wavPath): the energies of the decoded file, hopMs = 100.
\* The Hann-window analysis of the samples is not modelled: a decoded file is
\* known by the energy series it yields.  parseWavPcm16 does not throw on the
\* mono 16-bit PCM file ffmpeg was asked to write.
computeEnergyProfile(extract) == [energies |-> extract.energies, hopMs |-> ProfileHopMs]

\* the filter that delays whatever the sign of the offset
muxFilterDelayOnly(offsetMs) == [kind |-> "adelay", ms |-> Abs(offsetMs)]

\* muxAligned: the one audio filter it builds (times in ms; the code gives
\* atrim its start in seconds, (-offsetMs) / 1000).  adelay comes with apad,
\* atrim with asetpts=PTS-STARTPTS; Math.round leaves the offsets of
\* findBestOffset, whole numbers of ms, as they are.
muxFilter(offsetMs) ==
    IF offsetMs >= 0
    THEN [kind |-> "adelay", ms |-> offsetMs]
    ELSE [kind |-> "atrim", ms |-> Max(0, -offsetMs)]

\* A path of the caller's lists is the number DirBase * directory + file:
\* the order of the numbers is the order of the path strings.
DirBase == 10

\* path.basename(p)
Basename(p) == p % DirBase

\* an outputPath of blanks only
BlankOutput == "   "

\* options.outputPath && options.outputPath.trim().length: providedOutput is not null
providedOutput(opts) == opts.outputPath # "" /\ opts.outputPath # BlankOutput

\* const baseName = options.prepend || 'ad_'
baseNameOf(opts) == IF opts.prepend = "" THEN "ad_" ELSE opts.prepend

\* the derivation that joins the video's whole path, directory included
deriveOutputPathWholeName(idx, video) ==
    IF providedOutput(options)
    THEN IF pairs = 1 THEN UserOutput
         ELSE [dir |-> baseDir, prefix |-> "", stem |-> 0, index |-> idx + 1]
    ELSE [dir |-> baseDir, prefix |-> baseNameOf(options), stem |-> video, index |-> 0]

\* deriveOutputPath() of pair index idx (0-based) for the video path `video`:
\* <dir>/<prefix><stem>, or <dir>/<name>_<index><ext> when index > 0
deriveOutputPath(idx, video) ==
    IF providedOutput(options)
    THEN IF pairs = 1 THEN UserOutput
         ELSE [dir |-> baseDir, prefix |-> "", stem |-> 0, index |-> idx + 1]
    ELSE [dir |-> baseDir, prefix |-> baseNameOf(options), stem |-> Basename(video),
          index |-> 0]

OffsetIdle ==
    /\ fpc = "idle"
    /\ fa = << >>
    /\ fb = << >>
    /\ fhop = ProfileHopMs
    /\ fab = NoBest
    /\ fba = NoBest

NoCalls ==
    [getAudioDuration |-> 0, onInvalidDuration |-> 0, ensureBaseClip |-> 0,
     onAdjustingSpeed |-> 0, saveToFile |-> 0]

NoSpeed == [num |-> 0, den |-> 1]

FitStart(inputSet) ==
    /\ input \in inputSet
    /\ finalPath = "base"
    /\ queries = << >>
    /\ calls = NoCalls
    /\ neededSpeed = NoSpeed
    /\ fasterResult = "none"
    /\ returned = ""
    /\ callerOutcome = "pending"

FitIdle ==
    /\ spc = "idle"
    /\ FitStart({[baseSpeed |-> 100, span |-> 0, onInvalidDuration |-> FALSE,
                  onAdjustingSpeed |-> FALSE]})

\* no 'system:mixAudio' call
MixIdle ==
    /\ mpc = "idle"
    /\ clips = << >>
    /\ mi = 0
    /\ currentTime = 0
    /\ concat = << >>
    /\ mixResult = "pending"

\* no buildAtempoFilter call
TempoIdle ==
    /\ tpc = "idle"
    /\ tempoSpeed = 100
    /\ currentSpeed = [num |-> 1, den |-> 1]
    /\ filters = << >>
    /\ tempoResult = << >>

\* null
NoService == 0

NoOp == [op |-> "none", id |-> NoService, wasDefault |-> FALSE]

\* useState<TTSConfig>({ services: [], defaultServiceId: null, ... })
EmptyConfig == [services |-> << >>, defaultServiceId |-> NoService]

\* the provider as mounted, no handler called
TtsIdle ==
    /\ config = EmptyConfig
    /\ created = 0
    /\ lastOp = NoOp

ToolsIdle == MixIdle /\ TempoIdle /\ TtsIdle

RunInit(optionSet) ==
    /\ options \in optionSet
    /\ logs = << >>
    /\ videos = << >>
    /\ audios = << >>
    /\ pairs = 0
    /\ baseDir = NoDir
    /\ i = 0
    /\ outputPath = NoPath
    /\ videoExtract = NoExtract
    /\ audioExtract = NoExtract
    /\ videoProfile = << >>
    /\ audioProfile = << >>
    /\ best = NoBest
    /\ lastMux = NoFilter
    /\ lastOutput = NoPath
    /\ reportData = << >>
    /\ result = [pending |-> TRUE]
    /\ tempDirs = {}
    /\ createdDirs = {}
    /\ ffmpegCalls = 0
    /\ trace = << >>
    /\ inFlight = 0
    /\ pendingDir = NoDir
    /\ pushed = << >>

\* calls with a runId (the renderer always passes crypto.randomUUID()), with
\* or without an outputPath, with the default prefix
RunOptions ==
    [ videoPaths : DistinctSeqs(Names, MaxPaths),
      audioPaths : DistinctSeqs(Names, MaxPaths),
      outputPath : {"", "out"},
      prepend : {""},
      runId : {TRUE} ]

Init ==
    /\ pc = "start"
    /\ ToolsIdle
    /\ mainWindow = TRUE
    /\ RunInit(RunOptions)
    /\ OffsetIdle
    /\ FitIdle

\* the input check without its audio half
InputsMissingVideoOnly(opts) == Len(opts.videoPaths) = 0

\* if (!options.videoPaths?.length || !options.audioPaths?.length)
InputsMissing(opts) == Len(opts.videoPaths) = 0 \/ Len(opts.audioPaths) = 0

\* the length check with && in the place of ||
ProfileTooShortBoth(v, a) == Len(v) < MinProfileValues /\ Len(a) < MinProfileValues

\* if (videoProfile.energies.length < 5 || audioProfile.energies.length < 5)
ProfileTooShort(v, a) == Len(v) < MinProfileValues \/ Len(a) < MinProfileValues

\* the handler is invoked: const logs = [], then checkFfmpeg() spawns
\* 'ffmpeg -version' and the handler awaits its answer
RunInvoke ==
    /\ pc = "start"
    /\ inFlight' = inFlight + 1
    /\ ffmpegCalls' = ffmpegCalls + checkFfmpegSpawns
    /\ pc' = "checkFfmpeg"
    /\ UNCHANGED << options, logs, videos, audios, pairs, baseDir, i, outputPath,
                    videoExtract, audioExtract, videoProfile, audioProfile, best,
                    lastMux, lastOutput, reportData, result, tempDirs, createdDirs,
                    trace, pendingDir, mainWindow, pushed >>
    /\ UNCHANGED << offsetVars, fitVars, toolVars >>

\* if (!(await checkFfmpeg())) return { error: 'FFmpeg is required for alignment.', logs }
RunCheckFfmpeg ==
    /\ pc = "checkFfmpeg"
    /\ \E available \in BOOLEAN :
        /\ inFlight' = AfterClose(inFlight)
        /\ trace' = Append(trace, Step("checkFfmpeg", 0, available))
        /\ IF available
           THEN pc' = "inputs" /\ result' = result
           ELSE pc' = "done" /\ result' = ErrorResult(ErrFfmpeg, logs)
    /\ UNCHANGED << options, logs, videos, audios, pairs, baseDir, i, outputPath,
                    videoExtract, audioExtract, videoProfile, audioProfile, best,
                    lastMux, lastOutput, reportData, tempDirs, createdDirs,
                    ffmpegCalls, pendingDir, mainWindow, pushed >>
    /\ UNCHANGED << offsetVars, fitVars, toolVars >>

\* the input check, the two sorts, pairs, providedOutput and baseDir
RunSetup ==
    /\ pc = "inputs"
    /\ IF InputsMissing(options)
       THEN /\ pc' = "done"
            /\ result' = ErrorResult(ErrInputs, logs)
            /\ trace' = Append(trace, Step("checkInputs", 0, FALSE))
            /\ UNCHANGED << videos, audios, pairs, baseDir, tempDirs, createdDirs >>
       ELSE /\ videos' = sortPaths(options.videoPaths)
            /\ audios' = sortPaths(options.audioPaths)
            /\ pairs' = Min(Len(options.videoPaths), Len(options.audioPaths))
            /\ IF providedOutput(options)
               THEN baseDir' = UserDir /\ UNCHANGED << tempDirs, createdDirs >>
               ELSE /\ baseDir' = NewDir("align-output-")
                    /\ tempDirs' = tempDirs \cup {NewDir("align-output-")}
                    /\ createdDirs' = createdDirs \cup {NewDir("align-output-")}
            /\ pc' = "pairStart"
            /\ trace' = Append(trace, Step("checkInputs", 0, TRUE))
            /\ UNCHANGED result
    /\ UNCHANGED << options, logs, i, outputPath, videoExtract, audioExtract,
                    videoProfile, audioProfile, best, lastMux, lastOutput,
                    reportData, ffmpegCalls, inFlight, pendingDir, mainWindow, pushed >>
    /\ UNCHANGED << offsetVars, fitVars, toolVars >>

\* loop head and the start of the body: deriveOutputPath(), sendLog('Aligning: ...'),
\* then extractAudioToWav(video) spawns its checkFfmpeg
RunPairStart ==
    /\ pc = "pairStart"
    /\ i < pairs
    /\ outputPath' = deriveOutputPath(i, videos[i + 1])
    /\ logs' = Append(logs, AligningLine(i + 1, Basename(videos[i + 1]),
                                         Basename(audios[i + 1])))
    /\ pushed' = sendLog(AligningLine(i + 1, Basename(videos[i + 1]),
                                      Basename(audios[i + 1])))
    /\ videoExtract' = NoExtract
    /\ audioExtract' = NoExtract
    /\ videoProfile' = << >>
    /\ audioProfile' = << >>
    /\ best' = NoBest
    /\ lastMux' = NoFilter
    /\ trace' = Append(trace, Step("pairStart", i + 1, TRUE))
    /\ inFlight' = inFlight + 1
    /\ ffmpegCalls' = ffmpegCalls + checkFfmpegSpawns
    /\ pc' = "extractVideoCheck"
    /\ UNCHANGED << options, videos, audios, pairs, baseDir, i, lastOutput,
                    reportData, result, tempDirs, createdDirs, pendingDir, mainWindow >>
    /\ UNCHANGED << offsetVars, fitVars, toolVars >>

\* extractAudioToWav(video): its checkFfmpeg has answered; false => the call
\* resolves with the error and the handler returns it; true => mkdtempSync,
\* then the decoding ffmpeg is spawned
RunExtractVideoCheck ==
    /\ pc = "extractVideoCheck"
    /\ \E available \in BOOLEAN :
        IF available
        THEN /\ pendingDir' = NewDir("align-audio-")
             /\ tempDirs' = tempDirs \cup {NewDir("align-audio-")}
             /\ createdDirs' = createdDirs \cup {NewDir("align-audio-")}
             /\ inFlight' = AfterClose(inFlight) + 1
             /\ ffmpegCalls' = ffmpegCalls + 1
             /\ pc' = "extractVideo"
             /\ UNCHANGED << videoExtract, trace, result >>
        ELSE /\ videoExtract' = ExtractNoFfmpeg
             /\ inFlight' = AfterClose(inFlight)
             /\ trace' = Append(trace, Step("extractVideo", i + 1, FALSE))
             /\ pc' = "done"
             /\ result' = ErrorResult(ExtractNoFfmpeg.error, logs)
             /\ UNCHANGED << pendingDir, tempDirs, createdDirs, ffmpegCalls >>
    /\ UNCHANGED << options, logs, videos, audios, pairs, baseDir, i, outputPath,
                    audioExtract, videoProfile, audioProfile, best, lastMux,
                    lastOutput, reportData, mainWindow, pushed >>
    /\ UNCHANGED << offsetVars, fitVars, toolVars >>

\* const videoExtract = await extractAudioToWav(video); error => return;
\* else extractAudioToWav(audio) spawns its checkFfmpeg
RunExtractVideo ==
    /\ pc = "extractVideo"
    /\ \E o \in ExtractOutcomes :
        LET ex == extractAudioToWav(o[1], o[2], pendingDir)
        IN  /\ videoExtract' = ex
            /\ pendingDir' = NoDir
            /\ trace' = Append(trace, Step("extractVideo", i + 1, ex.error = ""))
            /\ IF ex.error # "" \/ ex.wavPath = NoDir
               THEN /\ pc' = "done"
                    /\ result' = ErrorResult(ex.error, logs)
                    /\ inFlight' = AfterClose(inFlight)
                    /\ UNCHANGED ffmpegCalls
               ELSE /\ pc' = "extractAudioCheck"
                    /\ result' = result
                    /\ inFlight' = AfterClose(inFlight) + 1
                    /\ ffmpegCalls' = ffmpegCalls + checkFfmpegSpawns
    /\ UNCHANGED << options, logs, videos, audios, pairs, baseDir, i, outputPath,
                    audioExtract, videoProfile, audioProfile, best, lastMux,
                    lastOutput, reportData, tempDirs, createdDirs, mainWindow, pushed >>
    /\ UNCHANGED << offsetVars, fitVars, toolVars >>

\* extractAudioToWav(audio): its checkFfmpeg has answered
RunExtractAudioCheck ==
    /\ pc = "extractAudioCheck"
    /\ \E available \in BOOLEAN :
        IF available
        THEN /\ pendingDir' = NewDir("align-audio-")
             /\ tempDirs' = tempDirs \cup {NewDir("align-audio-")}
             /\ createdDirs' = createdDirs \cup {NewDir("align-audio-")}
             /\ inFlight' = AfterClose(inFlight) + 1
             /\ ffmpegCalls' = ffmpegCalls + 1
             /\ pc' = "extractAudio"
             /\ UNCHANGED << audioExtract, trace, result >>
        ELSE /\ audioExtract' = ExtractNoFfmpeg
             /\ inFlight' = AfterClose(inFlight)
             /\ trace' = Append(trace, Step("extractAudio", i + 1, FALSE))
             /\ pc' = "done"
             /\ result' = ErrorResult(ExtractNoFfmpeg.error, logs)
             /\ UNCHANGED << pendingDir, tempDirs, createdDirs, ffmpegCalls >>
    /\ UNCHANGED << options, logs, videos, audios, pairs, baseDir, i, outputPath,
                    videoExtract, videoProfile, audioProfile, best, lastMux,
                    lastOutput, reportData, mainWindow, pushed >>
    /\ UNCHANGED << offsetVars, fitVars, toolVars >>

\* const audioExtract = await extractAudioToWav(audio); error => return
RunExtractAudio ==
    /\ pc = "extractAudio"
    /\ \E o \in ExtractOutcomes :
        LET ex == extractAudioToWav(o[1], o[2], pendingDir)
        IN  /\ audioExtract' = ex
            /\ pendingDir' = NoDir
            /\ inFlight' = AfterClose(inFlight)
            /\ trace' = Append(trace, Step("extractAudio", i + 1, ex.error = ""))
            /\ IF ex.error # "" \/ ex.wavPath = NoDir
               THEN pc' = "done" /\ result' = ErrorResult(ex.error, logs)
               ELSE pc' = "profile" /\ result' = result
    /\ UNCHANGED << options, logs, videos, audios, pairs, baseDir, i, outputPath,
                    videoExtract, videoProfile, audioProfile, best, lastMux,
                    lastOutput, reportData, tempDirs, createdDirs, ffmpegCalls,
                    mainWindow, pushed >>
    /\ UNCHANGED << offsetVars, fitVars, toolVars >>

\* both computeEnergyProfile calls, the length check, findBestOffset,
\* sendLog('Best offset: ...'), then muxAligned builds its filter and spawns ffmpeg
RunProfile ==
    /\ pc = "profile"
    /\ LET vp == computeEnergyProfile(videoExtract)
           ap == computeEnergyProfile(audioExtract)
           found == findBestOffset(vp.energies, ap.energies, vp.hopMs)
       IN  /\ videoProfile' = vp.energies
           /\ audioProfile' = ap.energies
           /\ IF ProfileTooShort(vp.energies, ap.energies)
              THEN /\ pc' = "done"
                   /\ result' = ErrorResult(ErrProfile, logs)
                   /\ trace' = Append(trace, Step("profile", i + 1, FALSE))
                   /\ UNCHANGED << best, logs, pushed, lastMux, inFlight, ffmpegCalls >>
              ELSE /\ best' = found
                   /\ logs' = Append(logs, BestOffsetLine(i + 1, found.offsetMs))
                   /\ pushed' = sendLog(BestOffsetLine(i + 1, found.offsetMs))
                   /\ trace' = trace \o << Step("profile", i + 1, TRUE),
                                           Step("findBestOffset", i + 1, TRUE) >>
                   /\ lastMux' = muxFilter(found.offsetMs)
                   /\ inFlight' = inFlight + 1
                   /\ ffmpegCalls' = ffmpegCalls + 1
                   /\ pc' = "mux"
                   /\ UNCHANGED result
    /\ UNCHANGED << options, videos, audios, pairs, baseDir, i, outputPath,
                    videoExtract, audioExtract, lastOutput, reportData,
                    tempDirs, createdDirs, pendingDir, mainWindow >>
    /\ UNCHANGED << offsetVars, fitVars, toolVars >>

\* the report entry with the video and audio of the first pair
ReportEntryFirstPair ==
    [ title |-> outputPath, video |-> videos[1], audio |-> audios[1],
      offsetMs |-> best.offsetMs, score |-> best.score, output |-> outputPath ]

\* reportData.push({...})
ReportEntry ==
    [ title |-> outputPath, video |-> videos[i + 1], audio |-> audios[i + 1],
      offsetMs |-> best.offsetMs, score |-> best.score, output |-> outputPath ]

\* const mux = await muxAligned(...); error => return; else lastOutput, the
\* report entry and the two fs.rmSync of the pair's 'align-audio-' directories
RunMux ==
    /\ pc = "mux"
    /\ \E exitOk \in BOOLEAN :
        /\ inFlight' = AfterClose(inFlight)
        /\ trace' = Append(trace, Step("muxAligned", i + 1, exitOk))
        /\ IF ~exitOk
           THEN /\ pc' = "done"
                /\ result' = ErrorResult(ErrMux, logs)
                /\ UNCHANGED << lastOutput, reportData, tempDirs, i >>
           ELSE /\ lastOutput' = outputPath
                /\ reportData' = Append(reportData, ReportEntry)
                /\ tempDirs' = tempDirs \ {videoExtract.wavPath, audioExtract.wavPath}
                /\ i' = i + 1
                /\ pc' = "pairStart"
                /\ UNCHANGED result
    /\ UNCHANGED << options, logs, videos, audios, pairs, baseDir, outputPath,
                    videoExtract, audioExtract, videoProfile, audioProfile, best,
                    lastMux, createdDirs, ffmpegCalls, pendingDir, mainWindow, pushed >>
    /\ UNCHANGED << offsetVars, fitVars, toolVars >>

\* return { success: true, logs, outputPath: lastOutput, reportData, outputs: allOutputs }
RunReturnSuccess ==
    /\ pc = "pairStart"
    /\ i >= pairs
    /\ pc' = "done"
    /\ result' = SuccessResult
    /\ UNCHANGED << options, logs, videos, audios, pairs, baseDir, i, outputPath,
                    videoExtract, audioExtract, videoProfile, audioProfile, best,
                    lastMux, lastOutput, reportData, tempDirs, createdDirs,
                    ffmpegCalls, trace, inFlight, pendingDir, mainWindow, pushed >>
    /\ UNCHANGED << offsetVars, fitVars, toolVars >>

Next ==
    \/ RunInvoke
    \/ RunCheckFfmpeg
    \/ RunSetup
    \/ RunPairStart
    \/ RunExtractVideoCheck
    \/ RunExtractVideo
    \/ RunExtractAudioCheck
    \/ RunExtractAudio
    \/ RunProfile
    \/ RunMux
    \/ RunReturnSuccess

Spec == Init /\ [][Next]_vars

\* ------------------------------------------- findBestOffset, pure function

\* hop lengths: the profiler's 100 ms, and two that make maxSteps 3 and 2
HopValues == {ProfileHopMs, 300000, 450000}

EnergySeries == SeqsOf(EnergyLevels, 0, MaxLen)

RunIdle ==
    /\ pc = "idle"
    /\ mainWindow = FALSE
    /\ RunInit({[videoPaths |-> << >>, audioPaths |-> << >>, outputPath |-> "",
                 prepend |-> "", runId |-> FALSE]})

InitOffset ==
    /\ RunIdle
    /\ ToolsIdle
    /\ FitIdle
    /\ fpc = "input"
    /\ fa \in EnergySeries
    /\ fb \in EnergySeries
    /\ fhop \in HopValues
    /\ fab = NoBest
    /\ fba = NoBest

\* findBestOffset(a, b, hopMs)
Search ==
    /\ fpc = "input"
    /\ fab' = findBestOffset(fa, fb, fhop)
    /\ fpc' = "searched"
    /\ UNCHANGED << fa, fb, fhop, fba >>
    /\ UNCHANGED << runVars, fitVars, toolVars >>

\* findBestOffset(b, a, hopMs): the same call with the arguments swapped
SearchSwapped ==
    /\ fpc = "searched"
    /\ fba' = findBestOffset(fb, fa, fhop)
    /\ fpc' = "swapped"
    /\ UNCHANGED << fa, fb, fhop, fab >>
    /\ UNCHANGED << runVars, fitVars, toolVars >>

NextOffset == Search \/ SearchSwapped

SpecOffset == InitOffset /\ [][NextOffset]_vars

\* ------------------------------------- 'alignment:run' and its log pushes

\* path lists already in sorted order: the caller's order plays no part in
\* what sendLog does
SortedPaths == { [k \in 1..n |-> k] : n \in 0..MaxPaths }

\* a call with or without a runId, temporary output directory
LogOptions ==
    [ videoPaths : SortedPaths,
      audioPaths : SortedPaths,
      outputPath : {""},
      prepend : {""},
      runId : BOOLEAN ]

InitLog ==
    /\ pc = "start"
    /\ ToolsIdle
    /\ mainWindow \in BOOLEAN
    /\ RunInit(LogOptions)
    /\ OffsetIdle
    /\ FitIdle

\* mainWindow.on('closed', () => { mainWindow = null }) while the run goes on
WindowClosed ==
    /\ pc \notin {"idle", "done"}
    /\ mainWindow
    /\ mainWindow' = FALSE
    /\ UNCHANGED << options, pc, logs, videos, audios, pairs, baseDir, i, outputPath,
                    videoExtract, audioExtract, videoProfile, audioProfile, best,
                    lastMux, lastOutput, reportData, result, tempDirs, createdDirs,
                    ffmpegCalls, trace, inFlight, pendingDir, pushed >>
    /\ UNCHANGED << offsetVars, fitVars, toolVars >>

NextLog == Next \/ WindowClosed

SpecLog == InitLog /\ [][NextLog]_vars

\* ------------------------------------------ ensureClipFitsSubtitleSlot

(***************************************************************************)
(* Times are in ms and speeds in hundredths, so that the comparisons of    *)
(* the code,                                                               *)
(*     ratio <= 1.02               100 * durationMs <= 102 * slotMs        *)
(*     neededSpeed <= baseSpeed + 0.01                                     *)
(* are comparisons of integers.  neededSpeed is kept as the exact fraction *)
(* num / den.  The rounding of the doubles is not modelled.                *)
(***************************************************************************)

\* if (ratio <= 1.02): the 1.02, in hundredths
TolerancePercent == 102

\* Math.min(baseSpeed * ratio, 4): the 4, in hundredths
SpeedCeiling == 400

\* if (neededSpeed <= baseSpeed + 0.01): the 0.01, in hundredths
SpeedStep == 1

\* speedFactor of the default service, in hundredths: below, at the ends of
\* and above the range of the settings slider, and around the ceiling
BaseSpeeds == {25, 50, 100, 200, 398, 399, 400}

\* subtitle.endTime - subtitle.startTime, ms
Spans == {0, 1000, 2000}

\* what getAudioDuration can answer, in ms (0: no 'Duration:' line was found)
Durations == {0, 500, 1020, 1030, 2000, 3000, 9000}

\* the answers of window.electronAPI.system.getAudioDuration: { error } or { duration }
DurationResults ==
    { [error |-> TRUE, duration |-> 0] }
        \cup { [error |-> FALSE, duration |-> d] : d \in Durations }

FitInputs ==
    [ baseSpeed : BaseSpeeds,
      span : Spans,
      onInvalidDuration : BOOLEAN,
      onAdjustingSpeed : BOOLEAN ]

InitFit ==
    /\ RunIdle
    /\ ToolsIdle
    /\ OffsetIdle
    /\ spc = "query"
    /\ FitStart(FitInputs)

\* const durationMs = durationResult.duration ? durationResult.duration * 1000 : null
\* (null is 0 here: if (!durationMs) treats both alike)
durationMsOf(r) == IF r.error THEN 0 ELSE r.duration

\* const slotMs = Math.max(1, subtitle.endTime - subtitle.startTime)
slotMsOf(span) == Max(1, span)

\* the tolerance test with < in the place of <=
WithinToleranceStrict(durationMs, slotMs) ==
    100 * durationMs < TolerancePercent * slotMs

\* if (ratio <= 1.02)
WithinTolerance(durationMs, slotMs) ==
    100 * durationMs <= TolerancePercent * slotMs

\* baseSpeed * ratio without the ceiling
neededSpeedUncapped(baseSpeed, durationMs, slotMs) ==
    [num |-> baseSpeed * durationMs, den |-> 100 * slotMs]

\* const neededSpeed = Math.min(baseSpeed * ratio, 4)
neededSpeedOf(baseSpeed, durationMs, slotMs) ==
    [num |-> Min(baseSpeed * durationMs, SpeedCeiling * slotMs), den |-> 100 * slotMs]

\* the speed test left out
NotFasterNever(speed, baseSpeed) == FALSE

\* if (neededSpeed <= baseSpeed + 0.01)
NotFaster(speed, baseSpeed) ==
    100 * speed.num <= (baseSpeed + SpeedStep) * speed.den

\* the re-synthesis path returned whatever the answer
ResynthReturnAlways(answer, measuredPath) == "faster"

\* if (!fasterResult.error && fasterResult.path) return fasterResult.path; return finalPath
ResynthReturn(answer, measuredPath) ==
    IF answer = "path" THEN "faster" ELSE measuredPath

\* the recovery made a loop: a failed second query asks for a replacement again
AfterRequeryLoop(r) == IF r.error THEN "recover" ELSE "measure"

\* after the second query the code goes on to the duration test
AfterRequery(r) == "measure"

Called(name) == [calls EXCEPT ![name] = @ + 1]

\* let durationResult = await getAudioDuration(finalPath)
FitQuery ==
    /\ spc = "query"
    /\ \E r \in DurationResults :
        /\ queries' = Append(queries, [path |-> finalPath, error |-> r.error,
                                       duration |-> r.duration])
        /\ calls' = Called("getAudioDuration")
        /\ spc' = IF r.error /\ input.onInvalidDuration THEN "recover" ELSE "measure"
    /\ UNCHANGED << input, finalPath, neededSpeed, fasterResult, returned, callerOutcome >>
    /\ UNCHANGED << runVars, offsetVars, toolVars >>

\* const refreshedPath = await onInvalidDuration().  In both callers the
\* callback drops the cache entry and runs ensureBaseClip again, which
\* synthesizes the base clip and throws when that fails; a callback may also
\* give an empty path.
FitRecover ==
    /\ spc = "recover"
    /\ \E answer \in {"path", "empty", "throws"} :
        /\ calls' = [calls EXCEPT !.onInvalidDuration = @ + 1,
                                  !.ensureBaseClip = @ + (IF answer = "empty" THEN 0 ELSE 1)]
        /\ finalPath' = IF answer = "path" THEN "refreshed" ELSE finalPath
        /\ spc' = CASE answer = "path" -> "requery"
                    [] answer = "empty" -> "measure"
                    [] OTHER -> "thrown"
    /\ UNCHANGED << input, queries, neededSpeed, fasterResult, returned, callerOutcome >>
    /\ UNCHANGED << runVars, offsetVars, toolVars >>

\* durationResult = await getAudioDuration(finalPath), on the replacement
FitRequery ==
    /\ spc = "requery"
    /\ \E r \in DurationResults :
        /\ queries' = Append(queries, [path |-> finalPath, error |-> r.error,
                                       duration |-> r.duration])
        /\ calls' = Called("getAudioDuration")
        /\ spc' = AfterRequery(r)
    /\ UNCHANGED << input, finalPath, neededSpeed, fasterResult, returned, callerOutcome >>
    /\ UNCHANGED << runVars, offsetVars, toolVars >>

\* durationMs, slotMs, ratio, neededSpeed and the three early returns; else
\* onAdjustingSpeed?.() and the saveToFile call
FitMeasure ==
    /\ spc = "measure"
    /\ LET durationMs == durationMsOf(queries[Len(queries)])
           slotMs == slotMsOf(input.span)
           speed == neededSpeedOf(input.baseSpeed, durationMs, slotMs)
       IN  IF durationMs = 0
              \/ WithinTolerance(durationMs, slotMs)
              \/ NotFaster(speed, input.baseSpeed)
           THEN /\ returned' = finalPath
                /\ spc' = "returned"
                /\ neededSpeed' = IF durationMs = 0 \/ WithinTolerance(durationMs, slotMs)
                                  THEN neededSpeed ELSE speed
                /\ UNCHANGED calls
           ELSE /\ neededSpeed' = speed
                /\ calls' = [calls EXCEPT
                                !.onAdjustingSpeed = @ + (IF input.onAdjustingSpeed THEN 1 ELSE 0),
                                !.saveToFile = @ + 1]
                /\ spc' = "resynth"
                /\ UNCHANGED returned
    /\ UNCHANGED << input, finalPath, queries, fasterResult, callerOutcome >>
    /\ UNCHANGED << runVars, offsetVars, toolVars >>

\* const fasterResult = await saveToFile(...) and the two returns after it
FitResynth ==
    /\ spc = "resynth"
    /\ \E answer \in {"error", "noPath", "path"} :
        /\ fasterResult' = answer
        /\ returned' = ResynthReturn(answer, finalPath)
    /\ spc' = "returned"
    /\ UNCHANGED << input, finalPath, queries, calls, neededSpeed, callerOutcome >>
    /\ UNCHANGED << runVars, offsetVars, toolVars >>

\* the caller goes on with the path: clips.push({ path: finalPath, ... }) in
\* handleConvert, the cache entry and the player in handleGenerateClip
CallerUsesClip ==
    /\ spc = "returned"
    /\ callerOutcome' = "clip"
    /\ spc' = "done"
    /\ UNCHANGED << input, finalPath, queries, calls, neededSpeed, fasterResult, returned >>
    /\ UNCHANGED << runVars, offsetVars, toolVars >>

\* the rejection leaves the caller's try block: catch (err) { setError(...) }
CallerCatches ==
    /\ spc = "thrown"
    /\ callerOutcome' = "aborted"
    /\ spc' = "done"
    /\ UNCHANGED << input, finalPath, queries, calls, neededSpeed, fasterResult, returned >>
    /\ UNCHANGED << runVars, offsetVars, toolVars >>

NextFit ==
    \/ FitQuery
    \/ FitRecover
    \/ FitRequery
    \/ FitMeasure
    \/ FitResynth
    \/ CallerUsesClip
    \/ CallerCatches

SpecFit == InitFit /\ [][NextFit]_vars

\* ------------------------------------ 'alignment:run' and its output paths

\* files 1 and 2 of one directory and a file 1 of another directory
PathNames == {1, 2, DirBase + 1}

\* a call with no, a blank or a real outputPath, with or without a prefix,
\* its videos in any order and from two directories
PathOptions ==
    [ videoPaths : DistinctSeqs(PathNames, MaxPaths),
      audioPaths : SortedPaths,
      outputPath : {"", BlankOutput, "out"},
      prepend : {"", "x_"},
      runId : {TRUE} ]

InitPath ==
    /\ pc = "start"
    /\ ToolsIdle
    /\ mainWindow = TRUE
    /\ RunInit(PathOptions)
    /\ OffsetIdle
    /\ FitIdle

SpecPath == InitPath /\ [][Next]_vars

\* ------------------------------------------------------- 'system:mixAudio'

(***************************************************************************)
(* A clip is { path, startTime }, startTime in ms.  The record of the      *)
(* model also carries length, the real length in ms of the audio in the    *)
(* file at path: it is what ffmpeg's concat puts on the timeline for the    *)
(* file, whatever the handler believes.  path is the place of the clip in  *)
(* the array the renderer sent.                                            *)
(***************************************************************************)
MixStarts == {0, 1000, 2000}

MixLengths == {500, 1500}

MixClips(files) ==
    [k \in DOMAIN files |->
        [path |-> k, startTime |-> files[k].startTime, length |-> files[k].length]]

MixInputs ==
    { MixClips(f) :
        f \in SeqsOf([startTime : MixStarts, length : MixLengths], 0, MaxClips) }

\* one step of clips.sort((a, b) => a.startTime - b.startTime): the sort is
\* stable, so c goes behind the clips that start no later than it
InsertClip(sorted, c) ==
    LET k == Cardinality({j \in DOMAIN sorted : sorted[j].startTime <= c.startTime})
    IN  SubSeq(sorted, 1, k) \o << c >> \o SubSeq(sorted, k + 1, Len(sorted))

RECURSIVE sortClips(_)
sortClips(s) ==
    IF s = << >>
    THEN << >>
    ELSE InsertClip(sortClips(SubSeq(s, 1, Len(s) - 1)), s[Len(s)])

\* getAudioDuration(clip.path) * 1000: the length ffmpeg prints, or 0 when
\* its output holds no "Duration: hh:mm:ss.ss"
getAudioDuration(clip, parsed) == IF parsed THEN clip.length ELSE 0

\* the file silence_<i>.mp3 of generateSilence(gap / 1000, silencePath)
SilenceFile(gap) ==
    [kind |-> "silence", path |-> 0, startTime |-> 0, len |-> gap]

\* clip.path as a line of the concat list
ClipFile(clip) ==
    [kind |-> "clip", path |-> clip.path, startTime |-> clip.startTime,
     len |-> clip.length]

InitMix ==
    /\ RunIdle
    /\ OffsetIdle
    /\ FitIdle
    /\ TempoIdle
    /\ TtsIdle
    /\ mpc = "check"
    /\ clips \in MixInputs
    /\ mi = 0
    /\ currentTime = 0
    /\ concat = << >>
    /\ mixResult = "pending"

\* if (!(await checkFfmpeg())) return { error }; mkdtempSync; clips.sort(...)
MixCheck ==
    /\ mpc = "check"
    /\ \E ok \in BOOLEAN :
        IF ok
        THEN /\ clips' = sortClips(clips)
             /\ mpc' = "place"
             /\ UNCHANGED mixResult
        ELSE /\ mpc' = "done"
             /\ mixResult' = "error"
             /\ UNCHANGED clips
    /\ UNCHANGED << mi, currentTime, concat >>
    /\ UNCHANGED << runVars, offsetVars, fitVars, tempoVars, ttsVars >>

\* one turn of  for (let i = 0; i < clips.length; i++)
MixPlace ==
    /\ mpc = "place"
    /\ mi < Len(clips)
    /\ LET clip == clips[mi + 1]
           gap == clip.startTime - currentTime
       IN  \E silenceOk \in BOOLEAN, parsed \in BOOLEAN :
            IF gap > 0 /\ ~silenceOk
            THEN \* generateSilence rejects: the handler's catch
                 /\ mpc' = "done"
                 /\ mixResult' = "error"
                 /\ UNCHANGED << mi, currentTime, concat >>
            ELSE /\ concat' =
                        concat
                        \o (IF gap > 0 THEN << SilenceFile(gap) >> ELSE << >>)
                        \o << ClipFile(clip) >>
                 /\ currentTime' =
                        currentTime + (IF gap > 0 THEN gap ELSE 0)
                        + getAudioDuration(clip, parsed)
                 /\ mi' = mi + 1
                 /\ UNCHANGED << mpc, mixResult >>
    /\ UNCHANGED clips
    /\ UNCHANGED << runVars, offsetVars, fitVars, tempoVars, ttsVars >>

\* writeFileSync(concatListPath), ffmpeg -f concat, and what follows it
MixConcat ==
    /\ mpc = "place"
    /\ mi = Len(clips)
    /\ \E ok \in BOOLEAN :
        mixResult' = IF ok THEN "success" ELSE "error"
    /\ mpc' = "done"
    /\ UNCHANGED << clips, mi, currentTime, concat >>
    /\ UNCHANGED << runVars, offsetVars, fitVars, tempoVars, ttsVars >>

NextMix == MixCheck \/ MixPlace \/ MixConcat

SpecMix == InitMix /\ [][NextMix]_vars

\* ------------------------------------------------------ buildAtempoFilter

(***************************************************************************)
(* speed is given in hundredths; currentSpeed and the factors pushed are   *)
(* exact fractions num / den.  The code halves and doubles a double, which *)
(* is exact, and `atempo=${currentSpeed}` prints the double so that it is  *)
(* read back unchanged, so the fractions are the factors ffmpeg gets.      *)
(***************************************************************************)
TempoSpeeds == 1..MaxTempoSpeed

\* 'atempo=2.0'
AtempoTwo == [num |-> 2, den |-> 1]

\* 'atempo=0.5'
AtempoHalf == [num |-> 1, den |-> 2]

\* a test that holds for every speed above 4 only
TooFastAbove4(s) == s.num > 4 * s.den

\* currentSpeed > 2.0
TooFast(s) == s.num > 2 * s.den

\* currentSpeed < 0.5
TooSlow(s) == 2 * s.num < s.den

\* currentSpeed /= 2.0
Halved(s) == [num |-> s.num, den |-> 2 * s.den]

\* currentSpeed /= 0.5
Doubled(s) == [num |-> 2 * s.num, den |-> s.den]

InitTempo ==
    /\ RunIdle
    /\ OffsetIdle
    /\ FitIdle
    /\ MixIdle
    /\ TtsIdle
    /\ tpc = "start"
    /\ tempoSpeed \in TempoSpeeds
    /\ currentSpeed = [num |-> 1, den |-> 1]
    /\ filters = << >>
    /\ tempoResult = << >>

\* if (speed === 1) return ''; const filters = []; let currentSpeed = speed
TempoStart ==
    /\ tpc = "start"
    /\ IF tempoSpeed = 100
       THEN /\ tpc' = "done"
            /\ UNCHANGED currentSpeed
       ELSE /\ tpc' = "fast"
            /\ currentSpeed' = [num |-> tempoSpeed, den |-> 100]
    /\ UNCHANGED << tempoSpeed, filters, tempoResult >>
    /\ UNCHANGED << runVars, offsetVars, fitVars, mixVars, ttsVars >>

\* one turn of  while (currentSpeed > 2.0)
TempoHalve ==
    /\ tpc = "fast"
    /\ TooFast(currentSpeed)
    /\ filters' = Append(filters, AtempoTwo)
    /\ currentSpeed' = Halved(currentSpeed)
    /\ UNCHANGED << tpc, tempoSpeed, tempoResult >>
    /\ UNCHANGED << runVars, offsetVars, fitVars, mixVars, ttsVars >>

\* one turn of  while (currentSpeed < 0.5), the first loop being over
TempoDouble ==
    /\ \/ tpc = "fast" /\ ~TooFast(currentSpeed)
       \/ tpc = "slow"
    /\ TooSlow(currentSpeed)
    /\ filters' = Append(filters, AtempoHalf)
    /\ currentSpeed' = Doubled(currentSpeed)
    /\ tpc' = "slow"
    /\ UNCHANGED << tempoSpeed, tempoResult >>
    /\ UNCHANGED << runVars, offsetVars, fitVars, mixVars, ttsVars >>

\* both loops over: filters.push(`atempo=${currentSpeed}`); return filters.join(',')
TempoReturn ==
    /\ \/ tpc = "fast" /\ ~TooFast(currentSpeed)
       \/ tpc = "slow"
    /\ ~TooSlow(currentSpeed)
    /\ filters' = Append(filters, currentSpeed)
    /\ tempoResult' = filters'
    /\ tpc' = "done"
    /\ UNCHANGED << tempoSpeed, currentSpeed >>
    /\ UNCHANGED << runVars, offsetVars, fitVars, mixVars, ttsVars >>

NextTempo == TempoStart \/ TempoHalve \/ TempoDouble \/ TempoReturn

SpecTempo == InitTempo /\ [][NextTempo]_vars

\* ------------------------------------------------- TTSContext, the services

(***************************************************************************)
(* A service is kept as its id; crypto.randomUUID() gives the ids 1, 2, .. *)
(* in the order of the addService calls.  Each action is one handler with  *)
(* its saveConfig: config.save and setConfig(normalizedConfig); the next   *)
(* handler is of the render that follows and reads the config set.         *)
(***************************************************************************)
ServiceIds == 1..MaxServices

HasService(cfg, id) == \E k \in DOMAIN cfg.services : cfg.services[k] = id

\* config.services.filter((s) => s.id !== id)
WithoutService(cfg, id) == SelectSeq(cfg.services, LAMBDA s : s # id)

\* deleteService that leaves defaultServiceId as it is
defaultAfterDeleteKept(cfg, id) == cfg.defaultServiceId

\* config.defaultServiceId === id
\*   ? config.services.find((s) => s.id !== id)?.id || null
\*   : config.defaultServiceId
defaultAfterDelete(cfg, id) ==
    IF cfg.defaultServiceId = id
    THEN IF WithoutService(cfg, id) = << >>
         THEN NoService
         ELSE Head(WithoutService(cfg, id))
    ELSE cfg.defaultServiceId

InitTts ==
    /\ RunIdle
    /\ OffsetIdle
    /\ FitIdle
    /\ MixIdle
    /\ TempoIdle
    /\ config = EmptyConfig
    /\ created = 0
    /\ lastOp = NoOp

\* addService(service)
AddService ==
    /\ created < MaxServices
    /\ LET id == created + 1
       IN  /\ config' =
                [services |-> Append(config.services, id),
                 defaultServiceId |->
                    IF config.defaultServiceId # NoService
                    THEN config.defaultServiceId
                    ELSE id]
           /\ created' = id
           /\ lastOp' = [op |-> "addService", id |-> id, wasDefault |-> FALSE]
    /\ UNCHANGED << runVars, offsetVars, fitVars, mixVars, tempoVars >>

\* deleteService(id), of a service of the list or of none
DeleteService ==
    /\ \E id \in ServiceIds :
        /\ config' =
                [services |-> WithoutService(config, id),
                 defaultServiceId |-> defaultAfterDelete(config, id)]
        /\ lastOp' = [op |-> "deleteService", id |-> id,
                      wasDefault |-> (config.defaultServiceId = id)]
    /\ UNCHANGED created
    /\ UNCHANGED << runVars, offsetVars, fitVars, mixVars, tempoVars >>

\* setDefaultService(id) with the id of a service of the list
SetDefaultService ==
    /\ \E id \in ServiceIds :
        /\ HasService(config, id)
        /\ config' = [config EXCEPT !.defaultServiceId = id]
        /\ lastOp' = [op |-> "setDefaultService", id |-> id,
                      wasDefault |-> (config.defaultServiceId = id)]
    /\ UNCHANGED created
    /\ UNCHANGED << runVars, offsetVars, fitVars, mixVars, tempoVars >>

NextTts == AddService \/ DeleteService \/ SetDefaultService

SpecTts == InitTts /\ [][NextTts]_vars

\* ------------------------------------------------------------ properties

Returned == pc = "done"

ReturnedError == pc = "done" /\ "error" \in DOMAIN result

\* the last step of the run so far
LastStepOfRun == trace[Len(trace)]

\* C1: when 'alignment:run' has returned, on success or on any error return,
\* every 'align-audio-' directory that extractAudioToWav created during the
\* run has been removed.
C1_AudioTempDirsRemoved ==
    Returned => \A d \in createdDirs : d.prefix = "align-audio-" => d \notin tempDirs

\* C2: a failed step of pair i is the last step of the run: the handler has
\* returned the error with the log lines accumulated so far, and no step and
\* no log line of a later pair exists.
C2_FailureAbortsRun ==
    \A k \in DOMAIN trace :
        (trace[k].pair >= 1 /\ ~trace[k].ok) =>
            /\ k = Len(trace)
            /\ ReturnedError
            /\ result.logs = logs
            /\ Len(logs) >= 1
            /\ \A m \in DOMAIN trace : trace[m].pair <= trace[k].pair
            /\ \A m \in DOMAIN logs : logs[m].pair <= trace[k].pair

\* C2 witness: the mux of pair 1 failed while a second pair was waiting.
C2_Witness ==
    /\ ReturnedError
    /\ pairs = 2
    /\ LastStepOfRun = Step("muxAligned", 1, FALSE)
    /\ Len(result.logs) = 2

\* C3: when the run aborts after some pairs completed, the result returned
\* carries the report entries of the completed pairs with the error and logs.
C3_PartialReportReturned ==
    (ReturnedError /\ Len(reportData) >= 1) =>
        /\ "reportData" \in DOMAIN result
        /\ result.reportData = reportData

\* C4: a call with an empty videoPaths or audioPaths list returns the input
\* error and has spawned no ffmpeg process.
C4_EmptyListNoFfmpeg ==
    (Returned /\ (Len(options.videoPaths) = 0 \/ Len(options.audioPaths) = 0)) =>
        /\ "error" \in DOMAIN result
        /\ result.error = ErrInputs
        /\ ffmpegCalls = 0

\* validation failed: the first checkFfmpeg answered false, or the input
\* check has been passed by a call with an empty list
ValidationFailed ==
    \/ Len(trace) >= 1 /\ ~trace[1].ok
    \/ Len(trace) >= 2 /\ (Len(options.videoPaths) = 0 \/ Len(options.audioPaths) = 0)

\* C5: when validation fails (tool unavailable, or an input list empty) the
\* handler returns an error with no partial work done: no temporary
\* directory created, no log line emitted, no pair processed.
C5_ValidationFailureNoWork ==
    ValidationFailed =>
        /\ ReturnedError
        /\ result.error \in {ErrFfmpeg, ErrInputs}
        /\ createdDirs = {}
        /\ tempDirs = {}
        /\ logs = << >>
        /\ result.logs = << >>
        /\ reportData = << >>
        /\ \A k \in DOMAIN trace : trace[k].pair = 0

\* C5 witness: ffmpeg is there, the audio list is empty, the video list is not.
C5_Witness ==
    /\ ReturnedError
    /\ result.error = ErrInputs
    /\ Len(options.videoPaths) = MaxPaths
    /\ Len(options.audioPaths) = 0
    /\ options.outputPath = ""
    /\ ffmpegCalls = 1

\* the profiles of the current pair have been computed
ProfilesComputed ==
    \E k \in DOMAIN trace : trace[k].step = "profile" /\ trace[k].pair = i + 1

\* C6: if either energy profile of a pair has fewer than 5 values, the run
\* returns an error and neither findBestOffset nor muxAligned is invoked for
\* that pair or a later one.
C6_ShortProfileAborts ==
    (ProfilesComputed /\
        (Len(videoProfile) < MinProfileValues \/ Len(audioProfile) < MinProfileValues)) =>
            /\ ReturnedError
            /\ result.error = ErrProfile
            /\ LastStepOfRun = Step("profile", i + 1, FALSE)
            /\ \A k \in DOMAIN trace :
                   trace[k].step \in {"findBestOffset", "muxAligned"} => trace[k].pair <= i

\* C6 witness: the second pair's audio is too short, its video is not.
C6_Witness ==
    /\ ReturnedError
    /\ i = 1
    /\ ProfilesComputed
    /\ Len(videoProfile) >= MinProfileValues
    /\ Len(audioProfile) < MinProfileValues

\* index (0-based hop) of the single burst of a profile, -1 if it has none
BurstHop(e) ==
    IF Cardinality({k \in DOMAIN e : e[k] > 0}) = 1
    THEN (CHOOSE k \in DOMAIN e : e[k] > 0) - 1
    ELSE -1

\* where an event at time t (ms) of the audio input lies in the muxed output
MuxedTime(t, filter) ==
    IF filter.kind = "adelay" THEN t + filter.ms ELSE t - filter.ms

\* C7: a positive offsetMs is found exactly when the audio's event occurs
\* earlier than the matching event of the video reference, a negative one
\* exactly when it occurs later, and after muxAligned has applied the offset
\* the audio event lies within one hop of the video event.
C7_SearchThenMuxAligns ==
    (lastMux # NoFilter /\ BurstHop(videoProfile) >= 0 /\ BurstHop(audioProfile) >= 0) =>
        LET tv == BurstHop(videoProfile) * ProfileHopMs
            ta == BurstHop(audioProfile) * ProfileHopMs
        IN  /\ (best.offsetMs > 0) <=> (ta < tv)
            /\ (best.offsetMs < 0) <=> (ta > tv)
            /\ Abs(MuxedTime(ta, lastMux) - tv) <= ProfileHopMs

\* true score comparison of two candidate steps, for the statements below
AtLeast(s, t) ==
    IF t.inf THEN TRUE
    ELSE IF s.inf THEN FALSE
    ELSE s.num * t.den >= t.num * s.den

\* the candidate steps of findBestOffset(a, b, hopMs) with a positive overlap
OverlapSteps(a, b, hopMs) ==
    { s \in Max(-MaxSteps(hopMs), -Len(a))..Min(MaxSteps(hopMs), Len(b)) :
        Min(Len(a) - Max(0, -s), Len(b) - Max(0, s)) > 0 }

\* the score of every candidate step with a positive overlap
StepScores(a, b, hopMs) ==
    LET aNorm == normalizeSeries(a)
        bNorm == normalizeSeries(b)
    IN  [s \in OverlapSteps(a, b, hopMs) |-> StepScore(aNorm, bNorm, s)]

\* the steps whose score no other candidate step exceeds
BestSteps(a, b, hopMs) ==
    LET sc == StepScores(a, b, hopMs)
    IN  { s \in DOMAIN sc : \A t \in DOMAIN sc : AtLeast(sc[s], sc[t]) }

SetMin(S) == CHOOSE x \in S : \A y \in S : x <= y

SetMax(S) == CHOOSE x \in S : \A y \in S : x >= y

\* C8: for every non-empty series S, findBestOffset(S, S, hopMs) returns
\* offsetMs = 0, and its score is the maximum over the candidate steps: no
\* step scores strictly higher than step 0.
C8_SelfOffsetZero ==
    (fpc # "input" /\ fa = fb /\ Len(fa) >= 1) =>
        /\ fab.offsetMs = 0
        /\ 0 \in BestSteps(fa, fb, fhop)

\* C9 as stated: findBestOffset(A, B, h).offsetMs and
\* -findBestOffset(B, A, h).offsetMs differ by at most one hop, ties and
\* constant series included.
C9_AntisymmetricWithinOneHop ==
    fpc = "swapped" => Abs(fab.offsetMs - (-fba.offsetMs)) <= fhop

\* C9 as amended: findBestOffset(A, B, h).offsetMs is h times the most
\* negative best-scoring step, -findBestOffset(B, A, h).offsetMs is h times
\* the most positive best-scoring step of the same search; the two are equal
\* whenever one step alone attains the best score.
C9_AntisymmetricUpToTies ==
    (fpc = "swapped" /\ OverlapSteps(fa, fb, fhop) # {}) =>
        LET bestSteps == BestSteps(fa, fb, fhop)
        IN  /\ fab.offsetMs = SetMin(bestSteps) * fhop
            /\ -fba.offsetMs = SetMax(bestSteps) * fhop
            /\ Cardinality(bestSteps) = 1 => fab.offsetMs = -fba.offsetMs

\* C9 witness: a search with a unique best step away from 0, swapped as well.
C9_Witness ==
    /\ fpc = "swapped"
    /\ Cardinality(BestSteps(fa, fb, fhop)) = 1
    /\ fab.offsetMs = 2 * fhop
    /\ fba.offsetMs = -2 * fhop

\* a is flat (0) but for one spike, of at least minLen samples
IsSpikeSeries(a, minLen) ==
    /\ Len(a) >= minLen
    /\ Cardinality({k \in DOMAIN a : a[k] > 0}) = 1

\* b is a shifted later by k hops: b[idx + k] = a[idx], same length, the
\* spike still inside b
ShiftedBy(a, b, k) ==
    /\ Len(b) = Len(a)
    /\ (BurstHop(a) + 1 + k) \in DOMAIN b
    /\ \A idx \in DOMAIN b :
         b[idx] = IF (idx - k) \in DOMAIN a THEN a[idx - k] ELSE 0

ShiftRange == -MaxLen..MaxLen

Range(s) == { s[k] : k \in DOMAIN s }

\* the k-th smallest name of a list that names no file twice
Ranked(paths, k) ==
    CHOOSE x \in Range(paths) : Cardinality({ y \in Range(paths) : y < x }) = k - 1

PairCount == Min(Len(options.videoPaths), Len(options.audioPaths))

\* C11: the run processes exactly min(|videoPaths|, |audioPaths|) pairs; the
\* k-th pair processed is the k-th smallest video with the k-th smallest
\* audio, whatever the order of the caller's lists; the surplus entries of
\* the longer list are never processed.
C11_PairsSortedAndZipped ==
    /\ \A k \in DOMAIN trace : trace[k].pair <= PairCount
    /\ \A k \in DOMAIN logs : logs[k].pair \in 1..PairCount
    /\ \A k \in DOMAIN logs :
           logs[k].kind = "Aligning" =>
               /\ logs[k].video = Basename(Ranked(options.videoPaths, logs[k].pair))
               /\ logs[k].audio = Basename(Ranked(options.audioPaths, logs[k].pair))
    /\ Len(reportData) <= PairCount
    /\ \A k \in DOMAIN reportData :
           /\ reportData[k].video = Ranked(options.videoPaths, k)
           /\ reportData[k].audio = Ranked(options.audioPaths, k)
    /\ (Returned /\ "success" \in DOMAIN result) =>
           /\ Len(result.reportData) = PairCount
           /\ Cardinality({ k \in DOMAIN trace : trace[k].step = "muxAligned" }) = PairCount

\* C11 witness: both lists given in descending order, one video in surplus.
C11_Witness ==
    /\ Returned
    /\ "success" \in DOMAIN result
    /\ options.videoPaths = << 2, 1 >>
    /\ options.audioPaths = << 2 >>
    /\ Len(result.reportData) = 1
    /\ result.reportData[1].video = 1
    /\ result.reportData[1].audio = 2

\* the positions at which the handler awaits an ffmpeg process
Awaiting == {"checkFfmpeg", "extractVideoCheck", "extractVideo",
             "extractAudioCheck", "extractAudio", "mux"}

\* the step that follows a successful step in the order of the loop body
FollowsInOrder(s, t) ==
    \/ s.step = "checkFfmpeg" /\ t.step = "checkInputs"
    \/ s.step = "checkInputs" /\ t = Step("pairStart", 1, TRUE)
    \/ s.step = "pairStart" /\ t.step = "extractVideo" /\ t.pair = s.pair
    \/ s.step = "extractVideo" /\ t.step = "extractAudio" /\ t.pair = s.pair
    \/ s.step = "extractAudio" /\ t.step = "profile" /\ t.pair = s.pair
    \/ s.step = "profile" /\ t.step = "findBestOffset" /\ t.pair = s.pair
    \/ s.step = "findBestOffset" /\ t.step = "muxAligned" /\ t.pair = s.pair
    \/ s.step = "muxAligned" /\ t = Step("pairStart", s.pair + 1, TRUE)

\* C19: at most one ffmpeg process of the run is in flight at any time, one
\* exactly while the handler awaits one; the steps follow each other in the
\* order extract video, extract audio, profile, findBestOffset, muxAligned,
\* report entry, and pair i+1 starts only after the mux of pair i has closed.
C19_OneProcessStepsInOrder ==
    /\ inFlight \in {0, 1}
    /\ inFlight = 1 <=> pc \in Awaiting
    /\ \A k \in 1..(Len(trace) - 1) : trace[k].ok /\ FollowsInOrder(trace[k], trace[k + 1])
    /\ Len(reportData) =
           Cardinality({ k \in DOMAIN trace : trace[k].step = "muxAligned" /\ trace[k].ok })
    /\ \A k \in DOMAIN reportData :
           \E m \in DOMAIN trace : trace[m] = Step("muxAligned", k, TRUE)

\* C19 witness: the second pair's video is being decoded after the first
\* pair went through its six steps.
C19_Witness ==
    /\ pc = "extractVideo"
    /\ i = 1
    /\ inFlight = 1
    /\ Len(reportData) = 1
    /\ ffmpegCalls = 8

IsPrefix(s, t) == Len(s) <= Len(t) /\ \A k \in DOMAIN s : s[k] = t[k]

Measured == queries[Len(queries)]

\* the call acts on a duration it could measure
MeasuredOk == Len(queries) >= 1 /\ ~Measured.error /\ Measured.duration > 0

\* the duration test and the speed test are behind the call
PastMeasure == spc \in {"resynth", "returned", "done"}

MeasuredSlotMs == IF input.span >= 1 THEN input.span ELSE 1

\* ratio > 1.02
Overrun == 100 * Measured.duration > TolerancePercent * MeasuredSlotMs

\* C12: whenever the measured clip has durationMs / slotMs <= 1.02, the call
\* returns the path of the measured clip and has made no saveToFile call and
\* no onAdjustingSpeed call.
C12_WithinToleranceReturnsClip ==
    (PastMeasure /\ MeasuredOk /\ ~Overrun) =>
        /\ spc # "resynth"
        /\ returned = Measured.path
        /\ calls.saveToFile = 0
        /\ calls.onAdjustingSpeed = 0

\* C12 witness: a clip of 1.02 s for a slot of 1 s, onAdjustingSpeed supplied.
C12_Witness ==
    /\ spc = "done"
    /\ MeasuredOk
    /\ Measured.duration = 1020
    /\ input.span = 1000
    /\ input.baseSpeed = 100
    /\ input.onAdjustingSpeed
    /\ returned = "base"

\* C13 as stated: whenever ratio > 1.02 and baseSpeed * ratio < 4, the call
\* makes exactly one saveToFile call, for every positive baseSpeed.
C13_OverrunBelowCeilingResynthesizes ==
    (PastMeasure /\ MeasuredOk /\ Overrun
        /\ input.baseSpeed * Measured.duration < SpeedCeiling * MeasuredSlotMs) =>
            calls.saveToFile = 1

\* C13 as amended: whenever ratio > 1.02 and baseSpeed * ratio < 4, the call
\* makes exactly one saveToFile call if baseSpeed * ratio > baseSpeed + 0.01,
\* which is so for every baseSpeed >= 0.5, and none if
\* baseSpeed * ratio <= baseSpeed + 0.01: the clip measured is returned.
C13_OverrunBelowCeilingResynthesizesIfFaster ==
    (PastMeasure /\ MeasuredOk /\ Overrun
        /\ input.baseSpeed * Measured.duration < SpeedCeiling * MeasuredSlotMs) =>
            /\ input.baseSpeed >= 50 =>
                   input.baseSpeed * Measured.duration > (input.baseSpeed + 1) * MeasuredSlotMs
            /\ IF input.baseSpeed * Measured.duration > (input.baseSpeed + 1) * MeasuredSlotMs
               THEN calls.saveToFile = 1
               ELSE calls.saveToFile = 0 /\ returned = Measured.path

\* C13 witness: base speed 0.5, a clip of 1.03 s for a slot of 1 s, re-synthesized.
C13_Witness ==
    /\ spc = "done"
    /\ MeasuredOk
    /\ input.baseSpeed = 50
    /\ Measured.duration = 1030
    /\ input.span = 1000
    /\ calls.saveToFile = 1

\* C14 as stated: whenever ratio > 1.02 and baseSpeed * ratio exceeds 4, the
\* call requests a re-synthesis whose speedFactor is exactly 4, base speeds at
\* or just below 4 included.
C14_OverrunAboveCeilingResynthesizesAt4 ==
    (PastMeasure /\ MeasuredOk /\ Overrun
        /\ input.baseSpeed * Measured.duration > SpeedCeiling * MeasuredSlotMs) =>
            /\ calls.saveToFile = 1
            /\ 100 * neededSpeed.num = SpeedCeiling * neededSpeed.den

\* C14 as amended: whenever ratio > 1.02 and baseSpeed * ratio exceeds 4, the
\* call requests one re-synthesis whose speedFactor is exactly 4 if
\* baseSpeed < 3.99, and none if baseSpeed >= 3.99: the clip measured is returned.
C14_OverrunAboveCeilingResynthesizesAt4Below399 ==
    (PastMeasure /\ MeasuredOk /\ Overrun
        /\ input.baseSpeed * Measured.duration > SpeedCeiling * MeasuredSlotMs) =>
            /\ 100 * neededSpeed.num = SpeedCeiling * neededSpeed.den
            /\ IF input.baseSpeed < 399
               THEN calls.saveToFile = 1
               ELSE calls.saveToFile = 0 /\ returned = Measured.path

\* C14 witness: base speed 3.98, a clip of 9 s for a slot of 1 s, re-synthesized at 4.
C14_Witness ==
    /\ spc = "done"
    /\ MeasuredOk
    /\ input.baseSpeed = 398
    /\ Measured.duration = 9000
    /\ input.span = 1000
    /\ calls.saveToFile = 1
    /\ neededSpeed = [num |-> 400000, den |-> 100000]

\* the recovery and the second query are behind the call
PastRecovery == spc \in {"measure", "resynth", "returned"}

\* C15: whenever the first duration query gives no usable duration (an
\* error, or the 'unknown' value 0) and onInvalidDuration is supplied, the
\* call invokes onInvalidDuration exactly once and queries the duration of
\* the replacement; if that is unavailable too, it returns the clip with no
\* re-synthesis.
C15_UnusableDurationRecoversOnce ==
    (PastRecovery /\ input.onInvalidDuration
        /\ (queries[1].error \/ queries[1].duration = 0)) =>
            /\ calls.onInvalidDuration = 1
            /\ finalPath = "refreshed" =>
                   /\ Len(queries) = 2
                   /\ queries[2].path = "refreshed"
            /\ (spc = "returned" /\ (Measured.error \/ Measured.duration = 0)) =>
                   /\ returned = finalPath
                   /\ calls.saveToFile = 0

\* C16: if the re-synthesis reports an error or no path, the call returns the
\* clip it measured, base or replacement, never an empty path; if it
\* succeeds, the call returns the path of the re-synthesis.
C16_ResynthFailureFallsBack ==
    fasterResult # "none" =>
        /\ returned # ""
        /\ returned = IF fasterResult = "path" THEN "faster" ELSE Measured.path
        /\ Measured.path \in {"base", "refreshed"}

\* C16 witness: the re-synthesis of a replacement clip failed.
C16_Witness ==
    /\ spc = "returned"
    /\ fasterResult = "error"
    /\ Len(queries) = 2
    /\ returned = "refreshed"

\* C17: whatever the duration query, the recovery callback and the
\* re-synthesis answer, the call completes by returning a clip path, and the
\* caller goes on with that clip: no failure inside the call aborts it.
C17_FitterNeverAbortsCaller ==
    /\ spc # "thrown"
    /\ spc = "done" => (returned # "" /\ callerOutcome = "clip")

\* C18: in every execution of the call, it calls saveToFile at most once,
\* onInvalidDuration at most once and the duration query at most twice; the
\* re-synthesized clip is never measured and no second correction is made.
\* (The base clip synthesis inside the callers' onInvalidDuration is the
\* callback's, counted in calls.ensureBaseClip.)
C18_SingleShot ==
    /\ calls.saveToFile <= 1
    /\ calls.onInvalidDuration <= 1
    /\ calls.getAudioDuration <= 2
    /\ calls.onAdjustingSpeed <= 1
    /\ calls.getAudioDuration = Len(queries)
    /\ \A k \in DOMAIN queries : queries[k].path # "faster"
    /\ fasterResult # "none" => spc \in {"returned", "done"}

\* C18 witness: a recovery, a second query and a successful re-synthesis.
C18_Witness ==
    /\ spc = "done"
    /\ calls.getAudioDuration = 2
    /\ calls.onInvalidDuration = 1
    /\ calls.saveToFile = 1
    /\ fasterResult = "path"
    /\ returned = "faster"

Succeeded == Returned /\ "success" \in DOMAIN result

\* the output path the k-th pair of the call is to get: the supplied path
\* for a single pair, <name>_<k><ext> beside it for several, else
\* <prepend or ad_><basename of the k-th video> in the run's output directory
ExpectedOutput(k) ==
    IF options.outputPath = "out"
    THEN IF PairCount = 1 THEN UserOutput
         ELSE [dir |-> UserDir, prefix |-> "", stem |-> 0, index |-> k]
    ELSE [dir |-> [prefix |-> "align-output-", id |-> 1],
          prefix |-> IF options.prepend = "" THEN "ad_" ELSE options.prepend,
          stem |-> Ranked(options.videoPaths, k) % DirBase,
          index |-> 0]

\* C21: reportData holds one entry per pair whose muxAligned succeeded, in
\* processing order, each with that pair's video, audio, offset and output;
\* on success there is one entry per pair and the returned outputPath is the
\* output of the last entry.
C21_ReportEntryPerMuxedPair ==
    /\ Len(reportData) =
           Cardinality({ k \in DOMAIN trace : trace[k].step = "muxAligned" /\ trace[k].ok })
    /\ \A k \in DOMAIN reportData :
           /\ trace[CHOOSE m \in DOMAIN trace : trace[m].step = "muxAligned"
                                                /\ trace[m].pair = k].ok
           /\ reportData[k].video = Ranked(options.videoPaths, k)
           /\ reportData[k].audio = Ranked(options.audioPaths, k)
           /\ reportData[k].offsetMs = logs[2 * k].offsetMs
           /\ reportData[k].output = ExpectedOutput(k)
           /\ reportData[k].title = reportData[k].output
    /\ Succeeded =>
           /\ result.reportData = reportData
           /\ result.outputs = reportData
           /\ Len(result.reportData) = PairCount
           /\ result.logs = logs
           /\ result.outputPath = result.reportData[Len(result.reportData)].output

\* C21 witness: two pairs went through, the second with an offset of its own.
C21_Witness ==
    /\ Succeeded
    /\ Len(result.reportData) = 2
    /\ result.reportData[1].offsetMs = 0
    /\ result.reportData[2].offsetMs # 0
    /\ result.reportData[2].video = 2
    /\ result.outputPath = result.reportData[2].output

\* the positions inside the body of the loop
InPair == {"extractVideoCheck", "extractVideo", "extractAudioCheck",
           "extractAudio", "profile", "mux"}

\* C22: with a non-blank outputPath and one pair the output is that path;
\* with a non-blank outputPath and several pairs, pair i (0-based) gets
\* <name>_<i+1><ext> in the directory of that path; with no (or a blank)
\* outputPath, pair i gets <prepend or ad_><basename of video i> in the one
\* 'align-output-' directory the run created.
C22_OutputPathDerivation ==
    /\ pc \in InPair => outputPath = ExpectedOutput(i + 1)
    /\ \A k \in DOMAIN reportData : reportData[k].output = ExpectedOutput(k)
    /\ Cardinality({ d \in createdDirs : d.prefix = "align-output-" }) =
           IF options.outputPath # "out"
              /\ \E k \in DOMAIN trace : trace[k] = Step("checkInputs", 0, TRUE)
           THEN 1 ELSE 0

\* C22 witness: a supplied path and two pairs, the second muxed to <name>_2<ext>.
C22_Witness ==
    /\ Succeeded
    /\ options.outputPath = "out"
    /\ Len(reportData) = 2
    /\ reportData[1].output = [dir |-> UserDir, prefix |-> "", stem |-> 0, index |-> 1]
    /\ reportData[2].output = [dir |-> UserDir, prefix |-> "", stem |-> 0, index |-> 2]

\* C25: muxAligned builds one audio filter: for offsetMs >= 0 a delay of
\* offsetMs ms (with padding), for offsetMs < 0 a trim of |offsetMs| ms from
\* the start of the audio; a non-zero exit of ffmpeg gives the error result
\* and no report entry.
C25_MuxFilterBySign ==
    /\ lastMux # NoFilter =>
           /\ best.offsetMs >= 0 => lastMux = [kind |-> "adelay", ms |-> best.offsetMs]
           /\ best.offsetMs < 0 => lastMux = [kind |-> "atrim", ms |-> -best.offsetMs]
    /\ \A k \in DOMAIN trace :
           (trace[k].step = "muxAligned" /\ ~trace[k].ok) =>
               /\ ReturnedError
               /\ result.error = ErrMux
               /\ "success" \notin DOMAIN result
               /\ Len(reportData) = trace[k].pair - 1

\* C25 witness: a negative offset was trimmed and the mux then failed.
C25_Witness ==
    /\ ReturnedError
    /\ best.offsetMs = -300
    /\ lastMux = [kind |-> "atrim", ms |-> 300]
    /\ LastStepOfRun = Step("muxAligned", 1, FALSE)

\* C26: the output paths of distinct pairs of one run are pairwise distinct,
\* also when two videos of different directories share a base filename.
C26_OutputPathsDistinct ==
    \A j, k \in DOMAIN reportData : j # k => reportData[j].output # reportData[k].output

\* the step count of the offset returned
ReturnedStep == fab.offsetMs \div fhop

\* C23: the offsetMs returned is a whole multiple of hopMs, at most
\* floor(ALIGN_MAX_OFFSET_MS / hopMs) * hopMs <= 900000 in size, and every
\* step of -maxSteps..maxSteps took part: none of them with an overlap
\* scores above the step returned.
C23_OffsetMultipleOfHopAllSteps ==
    fpc # "input" =>
        /\ fab.offsetMs % fhop = 0
        /\ Abs(fab.offsetMs) <= (ALIGN_MAX_OFFSET_MS \div fhop) * fhop
        /\ (ALIGN_MAX_OFFSET_MS \div fhop) * fhop <= 900000
        /\ \A s \in -MaxLen..MaxLen :
               (Abs(s) * fhop <= ALIGN_MAX_OFFSET_MS
                   /\ Min(Len(fa) - Max(0, -s), Len(fb) - Max(0, s)) > 0) =>
                       /\ ~fab.score.inf
                       /\ AtLeast(fab.score,
                                  StepScore(normalizeSeries(fa), normalizeSeries(fb), s))

\* C23 witness: the last step of the loop, +maxSteps, is the one returned.
C23_Witness ==
    /\ fpc = "searched"
    /\ fhop = 450000
    /\ fab.offsetMs = 900000
    /\ Cardinality(BestSteps(fa, fb, fhop)) = 1

\* C24: findBestOffset returns the step with the highest mean score over its
\* overlap, with that score; of several steps sharing the highest score it
\* returns the most negative; an offset whose step has no overlap is
\* returned only when no step has one (offset 0, score -Infinity).
C24_HighestScoreFirstVisited ==
    fpc # "input" =>
        IF OverlapSteps(fa, fb, fhop) = {}
        THEN fab = [offsetMs |-> 0, score |-> NegInfinity]
        ELSE /\ ReturnedStep \in BestSteps(fa, fb, fhop)
             /\ \A s \in BestSteps(fa, fb, fhop) : ReturnedStep <= s
             /\ fab.offsetMs = ReturnedStep * fhop
             /\ fab.score = StepScores(fa, fb, fhop)[ReturnedStep]

\* C24 witness: three steps share the highest score, the most negative is returned.
C24_Witness ==
    /\ fpc = "searched"
    /\ fhop = ProfileHopMs
    /\ Cardinality(BestSteps(fa, fb, fhop)) = 3
    /\ ReturnedStep < 0
    /\ ReturnedStep = SetMin(BestSteps(fa, fb, fhop))

IsConstant(e) == \A j, k \in DOMAIN e : e[j] = e[k]

\* C27: for two non-empty, non-constant series the score returned is a
\* correlation coefficient within [-1, 1].  The true score is
\* num / (den * (nA * stdA) * (nB * stdB)) with (n * std)^2 = sumSq / n, so
\* |score| <= 1 reads num^2 * nA * nB <= den^2 * sumSqA * sumSqB.
C27_ScoreWithinUnitRange ==
    (fpc # "input" /\ Len(fa) >= 1 /\ Len(fb) >= 1
        /\ ~IsConstant(fa) /\ ~IsConstant(fb)) =>
            LET aNorm == normalizeSeries(fa)
                bNorm == normalizeSeries(fb)
            IN  /\ ~fab.score.inf
                /\ fab.score.num * fab.score.num * aNorm.n * bNorm.n
                       <= fab.score.den * fab.score.den * aNorm.sumSq * bNorm.sumSq

RECURSIVE LenSum(_, _)
LenSum(files, n) == IF n = 0 THEN 0 ELSE LenSum(files, n - 1) + files[n].len

\* where the k-th file of the concat list begins on the timeline
PlacedAt(k) == LenSum(concat, k - 1)

\* where the last clip before the k-th file ends on the timeline, 0 if none
PrecedingEnd(k) ==
    LET before == {j \in 1..(k - 1) : concat[j].kind = "clip"}
    IN  IF before = {}
        THEN 0
        ELSE LET j == CHOOSE x \in before : \A y \in before : y <= x
             IN  PlacedAt(j) + concat[j].len

\* C28: in 'system:mixAudio' the clips go on the timeline in the order of
\* their startTime, each at max(its startTime, end of the clip before it):
\* when the clip before ends earlier, a silence of exactly the gap stands
\* before the clip, and no clip begins before its startTime or before the end
\* of the clip before it.
C28_ClipAtMaxOfStartAndPrecedingEnd ==
    \A k \in DOMAIN concat :
        concat[k].kind = "clip" =>
            /\ PlacedAt(k) = Max(concat[k].startTime, PrecedingEnd(k))
            /\ PlacedAt(k) >= concat[k].startTime
            /\ PlacedAt(k) >= PrecedingEnd(k)
            /\ PrecedingEnd(k) < concat[k].startTime =>
                    /\ k > 1
                    /\ concat[k - 1].kind = "silence"
                    /\ concat[k - 1].len = concat[k].startTime - PrecedingEnd(k)
            /\ \A j \in 1..(k - 1) :
                    concat[j].kind = "clip" => concat[j].startTime <= concat[k].startTime

RECURSIVE ProductNum(_)
ProductNum(fs) == IF fs = << >> THEN 1 ELSE Head(fs).num * ProductNum(Tail(fs))

RECURSIVE ProductDen(_)
ProductDen(fs) == IF fs = << >> THEN 1 ELSE Head(fs).den * ProductDen(Tail(fs))

\* C29: for a speed above 0 and other than 1 buildAtempoFilter comes to its
\* return after a number of loop turns bounded by the speed (2^turns is below
\* speed or below 1 / speed), and returns at least one factor, every factor
\* within [0.5, 2.0], their product the speed; speed 4 gives two factors 2;
\* speed 1 gives the empty filter.
C29_AtempoChainWithinRangeProductIsSpeed ==
    /\ tpc \in {"start", "fast", "slow"} =>
            /\ ENABLED NextTempo
            /\ \/ filters = << >>
               \/ 2 ^ Len(filters) * 100 < tempoSpeed
               \/ 2 ^ Len(filters) * tempoSpeed < 100
    /\ tpc = "done" /\ tempoSpeed = 100 => tempoResult = << >>
    /\ tpc = "done" /\ tempoSpeed # 100 =>
            /\ tempoResult # << >>
            /\ \A k \in DOMAIN tempoResult :
                    /\ tempoResult[k].den <= 2 * tempoResult[k].num
                    /\ tempoResult[k].num <= 2 * tempoResult[k].den
            /\ ProductNum(tempoResult) * 100 = tempoSpeed * ProductDen(tempoResult)
    /\ tpc = "done" /\ tempoSpeed = 400 =>
            /\ Len(tempoResult) = 2
            /\ \A k \in DOMAIN tempoResult :
                    tempoResult[k].num = 2 * tempoResult[k].den

\* C29 witness: speed 0.03 was doubled five times, its last factor is 0.96.
C29_Witness ==
    /\ tpc = "done"
    /\ tempoSpeed = 3
    /\ Len(tempoResult) = 6
    /\ tempoResult[6] = [num |-> 96, den |-> 100]

\* C30: after any sequence of addService, deleteService and
\* setDefaultService(id of a service of the list) from the empty config,
\* defaultServiceId is the id of a service of the list when the list is not
\* empty, and null when it is.
C30_DefaultServiceIsPresent ==
    IF config.services = << >>
    THEN config.defaultServiceId = NoService
    ELSE \E k \in DOMAIN config.services :
            config.services[k] = config.defaultServiceId

\* C30 witness: the default service was deleted while others stayed.
C30_Witness ==
    /\ lastOp.op = "deleteService"
    /\ lastOp.wasDefault
    /\ Len(config.services) >= 2
    /\ config.defaultServiceId = config.services[1]

====
